---- MODULE Spec2Model ----
(***************************************************************************)
(* Model of the terraform-ls plugin for Lapce (src/src/main.rs): the       *)
(* `initialize` flow that resolves the configuration, maps the host        *)
(* platform to a release artifact, downloads and unpacks it when the       *)
(* binary is missing, and starts the language server; and `handle_request` *)
(* that calls it.                                                          *)
(*                                                                         *)
(* Strings that the code inspects character by character (trim, URL        *)
(* parsing) are sequences of one-character strings; everything the code    *)
(* only formats or compares is a TLA+ string.                              *)
(***************************************************************************)
EXTENDS Integers, Sequences, FiniteSets, TLC

----------------------------------------------------------------------------
(* Bounds of the model *)

\* initialize requests delivered to one plugin instance in one behaviour
MaxInvocations == 2
\* entries of a downloaded archive
MaxEntries == 2
\* characters of a user-supplied version override
MaxVerLen == 3

----------------------------------------------------------------------------
(* Strings *)

RECURSIVE Flat(_)
\* string!(..) / format!("{..}"): the String made of the characters cs
Flat(cs) == IF cs = <<>> THEN "" ELSE Head(cs) \o Flat(Tail(cs))

\* char::is_whitespace, on the characters the model draws
IsWhitespace(c) == c \in {" ", "\t", "\n"}

RECURSIVE TrimStart(_)
TrimStart(cs) ==
  IF cs # <<>> /\ IsWhitespace(Head(cs)) THEN TrimStart(Tail(cs)) ELSE cs

RECURSIVE TrimEnd(_)
TrimEnd(cs) ==
  IF cs # <<>> /\ IsWhitespace(cs[Len(cs)])
  THEN TrimEnd(SubSeq(cs, 1, Len(cs) - 1))
  ELSE cs

\* str::trim
Trim(cs) == TrimEnd(TrimStart(cs))

\* all sequences over S of length at most n
SeqsUpTo(S, n) == UNION { [1..k -> S] : k \in 0..n }

----------------------------------------------------------------------------
(* JSON values of the initialization options (serde_json::Value) *)

JAbsent == [t |-> "absent", s |-> <<>>, items |-> <<>>]
JNum == [t |-> "num", s |-> <<>>, items |-> <<>>]
JStr(cs) == [t |-> "str", s |-> cs, items |-> <<>>]
JArr(xs) == [t |-> "arr", s |-> <<>>, items |-> xs]

\* an element of a JSON array: a string or something else
IStr(x) == [t |-> "str", str |-> x]
INum == [t |-> "num", str |-> ""]

TERRAFORM_LS_VERSION == "0.32.7"

DocumentSelector ==
  << [language |-> "terraform", pattern |-> "**/*.tf"],
     [language |-> "terraform", pattern |-> "**/*.tfvars"] >>

RECURSIVE PushStrings(_, _)
\* for arg in args { if let Some(arg) = arg.as_str() { server_args.push(arg) } }
PushStrings(acc, items) ==
  IF items = <<>> THEN acc
  ELSE PushStrings(IF Head(items).t = "str" THEN Append(acc, Head(items).str) ELSE acc,
                   Tail(items))

\* the strings of a JSON array, in order
StringsOf(items) ==
  LET strs == SelectSeq(items, LAMBDA x : x.t = "str")
  IN  [k \in 1..Len(strs) |-> strs[k].str]

\* ServerArgs with the override taking the place of the default argument
ServerArgsReplacing(cfg) ==
  IF cfg.hasOpts /\ cfg.hasVolt /\ cfg.serverArgs.t = "arr"
     /\ StringsOf(cfg.serverArgs.items) # <<>>
  THEN StringsOf(cfg.serverArgs.items)
  ELSE <<"serve">>

\* server_args after the configuration is read
ServerArgs(cfg) ==
  IF cfg.hasOpts /\ cfg.hasVolt /\ cfg.serverArgs.t = "arr"
  THEN PushStrings(<<"serve">>, cfg.serverArgs.items)
  ELSE <<"serve">>

\* options = opts.get("terraform-ls")
Options(cfg) == IF cfg.hasOpts THEN cfg.tfls ELSE "None"

\* the serverPath short-circuit is taken
HasServerPath(cfg) ==
  cfg.hasOpts /\ cfg.hasVolt /\ cfg.serverPath.t = "str" /\ cfg.serverPath.s # <<>>

\* ResolveVersion with the emptiness test made before the trim
ResolveVersionUntrimmedTest(cfg) ==
  IF cfg.hasOpts /\ cfg.hasVolt /\ cfg.version.t = "str" /\ cfg.version.s # <<>>
  THEN Flat(Trim(cfg.version.s))
  ELSE TERRAFORM_LS_VERSION

\* terraform_ls_version after the configuration is read
ResolveVersion(cfg) ==
  IF cfg.hasOpts /\ cfg.hasVolt /\ cfg.version.t = "str" /\ Trim(cfg.version.s) # <<>>
  THEN Flat(Trim(cfg.version.s))
  ELSE TERRAFORM_LS_VERSION

----------------------------------------------------------------------------
(* URLs (the url crate, as far as the flow uses it) *)

UrlErr == [ok |-> FALSE, href |-> ""]
UrlOk(h) == [ok |-> TRUE, href |-> h]

\* the characters of cs before the first "/"
RECURSIVE UpToSlash(_)
UpToSlash(cs) ==
  IF cs = <<>> \/ Head(cs) = "/" THEN <<>> ELSE <<Head(cs)>> \o UpToSlash(Tail(cs))

RECURSIVE EncodePath(_)
\* the path percent-encode set, on the characters the model draws
EncodePath(cs) ==
  IF cs = <<>> THEN ""
  ELSE (IF Head(cs) = " " THEN "%20" ELSE Head(cs)) \o EncodePath(Tail(cs))

\* Url::parse(&format!("urn:{server_path}")): the input is trimmed of surrounding
\* spaces; after "//" an authority is parsed and a space in the host is an error;
\* a path starting with "/" is percent-encoded; any other path is kept as it is
ParseUrn(path) ==
  LET t == TrimEnd(path)
  IN  IF Len(t) >= 2 /\ t[1] = "/" /\ t[2] = "/"
      THEN LET rest == SubSeq(t, 3, Len(t))
               host == UpToSlash(rest)
           IN  IF \E i \in 1..Len(host) : host[i] = " "
               THEN UrlErr
               ELSE UrlOk("urn://" \o Flat(host)
                           \o EncodePath(SubSeq(rest, Len(host) + 1, Len(rest))))
      ELSE IF t # <<>> /\ t[1] = "/"
      THEN UrlOk("urn:" \o EncodePath(t))
      ELSE UrlOk("urn:" \o Flat(t))

Schemes == {"file:", "urn:"}

\* Url::parse(&volt_uri) succeeds: the text starts with a scheme
ParsesAsUrl(toks) == toks # <<>> /\ Head(toks) \in Schemes

\* a URL that cannot be a base: no "/" follows its scheme
CannotBeABase(toks) == Len(toks) < 2 \/ toks[2] # "/"

RECURSIVE DropLastSegment(_)
\* the URL up to and including its last "/"
DropLastSegment(toks) ==
  IF toks = <<>> \/ toks[Len(toks)] = "/" THEN toks
  ELSE DropLastSegment(SubSeq(toks, 1, Len(toks) - 1))

\* Url::parse(&volt_uri) and then server_uri.join(server_path)
JoinUrl(toks, name) ==
  IF ~ParsesAsUrl(toks) \/ CannotBeABase(toks) THEN UrlErr
  ELSE UrlOk(Flat(DropLastSegment(toks)) \o name)

----------------------------------------------------------------------------
(* Platform and artifact names *)

SupportedArch == {"x86", "x86_64", "aarch64"}
SupportedOS == {"macos", "linux", "windows", "openbsd", "freebsd"}

\* an environment variable that is not set (std::env::VarError)
Unset == "Err"

Matched(v) == [ok |-> TRUE, v |-> v]
Refused(e) == [ok |-> FALSE, v |-> e]

\* let arch = match VoltEnvironment::architecture().as_deref() { .. }
ArchMatch(answer) ==
  CASE answer = "x86" -> Matched("386")
    [] answer = "x86_64" -> Matched("amd64")
    [] answer = "aarch64" -> Matched("arm64")
    [] answer = Unset -> Refused("Error ARCH")
    [] OTHER -> Refused("Unsupported ARCH")

\* ZipMatch with the host's own name for macOS in the archive name
ZipMatchMacos(answer, version, arch) ==
  CASE answer \in {"macos", "linux", "windows", "openbsd", "freebsd"} ->
         Matched("terraform-ls_" \o version \o "_" \o answer \o "_" \o arch \o ".zip")
    [] answer = Unset -> Refused("Error OS")
    [] OTHER -> Refused("Unsupported OS")

\* ZipMatch with a silent fallback to linux for an unknown operating system
ZipMatchFallback(answer, version, arch) ==
  CASE answer = "macos" ->
         Matched("terraform-ls_" \o version \o "_darwin_" \o arch \o ".zip")
    [] answer \in {"windows", "openbsd", "freebsd"} ->
         Matched("terraform-ls_" \o version \o "_" \o answer \o "_" \o arch \o ".zip")
    [] answer = Unset -> Refused("Error OS")
    [] OTHER -> Matched("terraform-ls_" \o version \o "_linux_" \o arch \o ".zip")

\* let zip_file = match VoltEnvironment::operating_system().as_deref() { .. }
ZipMatch(answer, version, arch) ==
  CASE answer = "macos" ->
         Matched("terraform-ls_" \o version \o "_darwin_" \o arch \o ".zip")
    [] answer = "linux" ->
         Matched("terraform-ls_" \o version \o "_linux_" \o arch \o ".zip")
    [] answer = "windows" ->
         Matched("terraform-ls_" \o version \o "_windows_" \o arch \o ".zip")
    [] answer = "openbsd" ->
         Matched("terraform-ls_" \o version \o "_openbsd_" \o arch \o ".zip")
    [] answer = "freebsd" ->
         Matched("terraform-ls_" \o version \o "_freebsd_" \o arch \o ".zip")
    [] answer = Unset -> Refused("Error OS")
    [] OTHER -> Refused("Unsupported OS")

\* let download_url = format!(..)
DownloadUrl(version, zip) ==
  "https://releases.hashicorp.com/terraform-ls/" \o version \o "/" \o zip

\* let server_path = match VoltEnvironment::operating_system().as_deref() { .. }
ServerPathMatch(answer) ==
  IF answer = "windows" THEN "terraform-ls.exe" ELSE "terraform-ls"

----------------------------------------------------------------------------
(* Archives and the working directory *)

\* an archive entry: the components of its name, and whether the name ends in '/'
Entry(comps, isDir) == [name |-> comps, dir |-> isDir]

RECURSIVE Enclosed(_, _)
\* ZipFile::enclosed_name, as a fold over the components of the entry's name:
\* a root component, or a ".." that climbs above the start, gives None
Enclosed(comps, depth) ==
  IF comps = <<>> THEN TRUE
  ELSE LET c == Head(comps)
       IN  CASE c = "/" -> FALSE
             [] c = ".." -> depth > 0 /\ Enclosed(Tail(comps), depth - 1)
             [] c = "." -> Enclosed(Tail(comps), depth)
             [] OTHER -> Enclosed(Tail(comps), depth + 1)

\* EnclosedName that looks at the first component only
EnclosedNameFirstOnly(e) == e.name = <<>> \/ e.name[1] \notin {"..", "/"}

\* file.enclosed_name() is Some(path)
EnclosedName(e) == Enclosed(e.name, 0)

RECURSIVE Resolve(_, _)
\* the place a relative path names, seen from the working directory: the operating
\* system resolves "." and "..", and a root component leaves the working directory
Resolve(stack, comps) ==
  IF comps = <<>> THEN stack
  ELSE LET c == Head(comps)
           n == Len(stack)
       IN  CASE c = "/" -> Resolve(<<"/">>, Tail(comps))
             [] c = "." -> Resolve(stack, Tail(comps))
             [] c = ".." ->
                  IF n > 0 /\ stack[n] \notin {"..", "/"}
                  THEN Resolve(SubSeq(stack, 1, n - 1), Tail(comps))
                  ELSE IF n > 0 /\ stack[n] = "/"
                  THEN Resolve(stack, Tail(comps))
                  ELSE Resolve(Append(stack, ".."), Tail(comps))
             [] OTHER -> Resolve(Append(stack, c), Tail(comps))

Place(comps) == Resolve(<<>>, comps)

\* what a place of the file system holds
Dir == [kind |-> "dir", zip |-> FALSE, entries |-> <<>>, full |-> TRUE]
\* a file written by io::copy: complete, or cut short
Data(complete) == [kind |-> "file", zip |-> FALSE, entries |-> <<>>, full |-> complete]
\* a file holding a response body
Stored(body) == [kind |-> "file", zip |-> body.zip, entries |-> body.entries, full |-> TRUE]

\* Path::exists
Exists(files, comps) == Place(comps) \in DOMAIN files

Put(files, place, content) ==
  [x \in DOMAIN files \cup {place} |-> IF x = place THEN content ELSE files[x]]

Delete(files, place) == [x \in DOMAIN files \ {place} |-> files[x]]

\* the places fs::create_dir_all(path) needs to be directories
Ancestors(place) ==
  { SubSeq(place, 1, k) : k \in { j \in 1..Len(place) : place[j] \notin {"..", "/"} } }

\* fs::create_dir_all can succeed: none of the places is a file
CanMkdirAll(files, place) ==
  \A a \in Ancestors(place) : a \in DOMAIN files => files[a].kind = "dir"

MkdirAll(files, place) ==
  [x \in DOMAIN files \cup Ancestors(place) |->
     IF x \in DOMAIN files THEN files[x] ELSE Dir]

\* outpath.parent()
Parent(comps) == SubSeq(comps, 1, Len(comps) - 1)

----------------------------------------------------------------------------
(* Inputs *)

ArchAnswers == SupportedArch \cup {"riscv64", Unset}
OsAnswers == SupportedOS \cup {"solaris", Unset}

WorkDirSlash == <<"file:", "/", "/", "/", "w", "/">>
WorkDirNoSlash == <<"file:", "/", "/", "/", "w">>
\* VOLT_URI: unset, a directory URL with and without a trailing "/", a URL that
\* cannot be a base, and a text that is no URL
UriAnswers ==
  { <<Unset>>, WorkDirSlash, WorkDirNoSlash, <<"urn:", "w">>, <<"w">> }

VersionValues ==
  {JAbsent, JNum} \cup { JStr(cs) : cs \in SeqsUpTo({" ", "7"}, MaxVerLen) }

ArgValues ==
  { JAbsent, JNum, JArr(<<>>), JArr(<<INum>>), JArr(<<IStr("-x")>>),
    JArr(<<IStr("-x"), INum, IStr("-y")>>) }

PathTls == <<"t", "l", "s">>
PathAbs == <<"/", "b", "i", "n", "/", "t", "l", "s">>
PathTrailing == <<"t", "l", "s", " ">>
PathBadHost == <<"/", "/", " ", "x">>

PathValues ==
  { JAbsent, JNum, JStr(<<>>), JStr(PathTls), JStr(PathAbs), JStr(PathTrailing),
    JStr(PathBadHost) }

\* initialization_options: None
NoOptions ==
  [hasOpts |-> FALSE, hasVolt |-> FALSE, tfls |-> "None",
   serverArgs |-> JAbsent, serverPath |-> JAbsent, version |-> JAbsent]

\* initialization_options with a "volt" object
Volt(tf, args, path, ver) ==
  [hasOpts |-> TRUE, hasVolt |-> TRUE, tfls |-> tf,
   serverArgs |-> args, serverPath |-> path, version |-> ver]

\* initialization_options without "volt"
NoVolt(tf) == [NoOptions EXCEPT !.hasOpts = TRUE, !.tfls = tf]

TflsValues == {"None", "Some(terraform-ls)"}

AllConfigs ==
  {NoOptions} \cup { NoVolt(tf) : tf \in TflsValues }
  \cup { Volt(tf, a, sp, v) :
           tf \in TflsValues, a \in ArgValues, sp \in PathValues, v \in VersionValues }

\* the archive entries the model draws
EBinary == Entry(<<"terraform-ls">>, FALSE)
EClimb == Entry(<<"docs", "..", "..", "evil">>, FALSE)
EDocs == Entry(<<"docs">>, TRUE)
EReadme == Entry(<<"docs", "README">>, FALSE)

Entries == {EBinary, EClimb, EDocs, EReadme}

\* a response body: a zip archive with its entries, or bytes that are no archive
NotAZip == [zip |-> FALSE, entries |-> <<>>]
Archive(es) == [zip |-> TRUE, entries |-> es]
Bodies == {NotAZip} \cup { Archive(es) : es \in SeqsUpTo(Entries, MaxEntries) }

----------------------------------------------------------------------------
(* State *)

VARIABLES
  procs,        \* the invocations that share the working directory
  host,         \* what the host answers: VOLT_ARCH, VOLT_OS, VOLT_URI
  config,       \* the initialization options the editor sends
  fs,           \* the working directory: place -> content
  pc,           \* where each invocation stands
  loc,          \* the local variables of initialize
  io,           \* what each invocation has done so far to its environment
  lsp,          \* the start_lsp directives each invocation has issued
  log,          \* the messages each invocation has sent to the editor
  result,       \* the value initialize returned
  invocations,  \* initialize requests handled so far
  release,      \* the file the release server has served for each URL
  issued        \* every launch URI issued so far, with the way it was reached

vars ==
  <<procs, host, config, fs, pc, loc, io, lsp, log, result, invocations, release,
    issued>>

\* the locals before initialize assigns them
NoLocals ==
  [server_args |-> <<>>, options |-> "None", version |-> "",
   arch |-> "", zip_file |-> "", download_url |-> "", server_path |-> "",
   found |-> "?", status |-> "?", body |-> NotAZip,
   entries |-> <<>>, i |-> 0, removed |-> "?",
   volt_uri |-> <<>>, server_uri |-> ""]

NoIo ==
  [gets |-> 0, archReads |-> 0, osReads |-> 0, uriReads |-> 0,
   fsReads |-> 0, fsWrites |-> 0, fsDeletes |-> 0, extracted |-> 0,
   checks |-> 0]

\* a working directory with nothing in it
Empty == [x \in {} |-> Dir]

Start(ps) ==
  /\ procs = ps
  /\ pc = [p \in ps |-> "idle"]
  /\ loc = [p \in ps |-> NoLocals]
  /\ io = [p \in ps |-> NoIo]
  /\ lsp = [p \in ps |-> <<>>]
  /\ log = [p \in ps |-> <<>>]
  /\ result = [p \in ps |-> "none"]
  /\ invocations = 0
  /\ release = [u \in {} |-> NotAZip]
  /\ issued = {}

----------------------------------------------------------------------------
(* Steps shared by the actions *)

Goto(p, label) == pc' = [pc EXCEPT ![p] = label]

\* initialize returns r to handle_request
Finish(p, r) ==
  /\ pc' = [pc EXCEPT ![p] = "return"]
  /\ result' = [result EXCEPT ![p] = r]

\* return Err(..) / the ? operator
Fail(p, err) == Finish(p, err)

Count(p, field) == io' = [io EXCEPT ![p][field] = @ + 1]

Say(p, chan, level, msg) ==
  log' = [log EXCEPT ![p] =
            Append(@, [chan |-> chan, level |-> level, msg |-> msg, sent |-> TRUE])]

\* the arguments of PLUGIN_RPC.start_lsp
Directive(uri, args, opts) ==
  [uri |-> uri, args |-> args, selector |-> DocumentSelector, options |-> opts]

\* how an invocation came to its launch
Route(l) ==
  CASE l.found = "?" -> "explicit"
    [] l.found = "yes" -> "present"
    [] l.status = "success" -> "fresh"
    [] OTHER -> "skipped"

----------------------------------------------------------------------------
(* handle_request and the configuration part of initialize *)

\* handle_request receives an initialize request and calls initialize(params)
HandleRequest(p) ==
  /\ pc[p] = "idle"
  /\ invocations < MaxInvocations
  /\ invocations' = invocations + 1
  /\ pc' = [pc EXCEPT ![p] = "config"]
  /\ loc' = [loc EXCEPT ![p] = NoLocals]
  /\ io' = [io EXCEPT ![p] = NoIo]
  /\ lsp' = [lsp EXCEPT ![p] = <<>>]
  /\ log' = [log EXCEPT ![p] = <<>>]
  /\ result' = [result EXCEPT ![p] = "none"]
  /\ UNCHANGED <<procs, host, config, fs, release, issued>>

\* the defaults, options and serverArgs
ReadConfig(p) ==
  /\ pc[p] = "config"
  /\ loc' = [loc EXCEPT ![p].version = TERRAFORM_LS_VERSION,
                        ![p].server_args = ServerArgs(config),
                        ![p].options = Options(config)]
  /\ Goto(p, IF config.hasOpts /\ config.hasVolt THEN "serverPath" ELSE "arch")
  /\ UNCHANGED <<procs, host, config, fs, io, lsp, log, result, invocations, release, issued>>

\* CheckServerPath without the return after start_lsp
CheckServerPathFallsThrough(p) ==
  /\ pc[p] = "serverPath"
  /\ IF HasServerPath(config) /\ ParseUrn(config.serverPath.s).ok
     THEN /\ lsp' = [lsp EXCEPT ![p] =
                       Append(@, Directive(ParseUrn(config.serverPath.s).href,
                                           loc[p].server_args, loc[p].options))]
          /\ issued' = issued \cup {[route |-> Route(loc[p]),
                                     uri |-> ParseUrn(config.serverPath.s).href]}
     ELSE UNCHANGED <<lsp, issued>>
  /\ Goto(p, "version")
  /\ UNCHANGED <<procs, host, config, fs, loc, io, log, result, invocations, release>>

\* volt.serverPath: a non-empty string starts the server at urn:<serverPath> and returns
CheckServerPath(p) ==
  /\ pc[p] = "serverPath"
  /\ IF HasServerPath(config)
     THEN LET u == ParseUrn(config.serverPath.s)
          IN  IF ~u.ok
              THEN Fail(p, "Failed to parse URL") /\ UNCHANGED <<lsp, issued>>
              ELSE \/ /\ lsp' = [lsp EXCEPT ![p] =
                                   Append(@, Directive(u.href, loc[p].server_args,
                                                       loc[p].options))]
                      /\ issued' = issued \cup {[route |-> Route(loc[p]), uri |-> u.href]}
                      /\ Finish(p, "Ok")
                   \/ Fail(p, "start_lsp failed") /\ UNCHANGED <<lsp, issued>>
     ELSE Goto(p, "version") /\ UNCHANGED <<result, lsp, issued>>
  /\ UNCHANGED <<procs, host, config, fs, loc, io, log, invocations, release>>

\* volt.terraformlsVersion
ReadVersion(p) ==
  /\ pc[p] = "version"
  /\ loc' = [loc EXCEPT ![p].version = ResolveVersion(config)]
  /\ Goto(p, "arch")
  /\ UNCHANGED <<procs, host, config, fs, io, lsp, log, result, invocations, release, issued>>

----------------------------------------------------------------------------
(* The platform part of initialize *)

ReadArch(p) ==
  /\ pc[p] = "arch"
  /\ Count(p, "archReads")
  /\ LET m == ArchMatch(host.arch)
     IN  IF m.ok
         THEN /\ loc' = [loc EXCEPT ![p].arch = m.v]
              /\ Goto(p, "os")
              /\ UNCHANGED result
         ELSE Fail(p, m.v) /\ UNCHANGED loc
  /\ UNCHANGED <<procs, host, config, fs, lsp, log, invocations, release, issued>>

\* the archive name, the ZIP_FILE line on stderr and the download URL
ReadOs(p) ==
  /\ pc[p] = "os"
  /\ Count(p, "osReads")
  /\ LET m == ZipMatch(host.os, loc[p].version, loc[p].arch)
     IN  IF m.ok
         THEN /\ loc' = [loc EXCEPT ![p].zip_file = m.v,
                                    ![p].download_url = DownloadUrl(loc[p].version, m.v)]
              /\ Say(p, "stderr", "", "ZIP_FILE")
              /\ Goto(p, "os2")
              /\ UNCHANGED result
         ELSE Fail(p, m.v) /\ UNCHANGED <<loc, log>>
  /\ UNCHANGED <<procs, host, config, fs, lsp, invocations, release, issued>>

\* the name of the binary, from a second read of the operating system
ReadOsAgain(p) ==
  /\ pc[p] = "os2"
  /\ Count(p, "osReads")
  /\ loc' = [loc EXCEPT ![p].server_path = ServerPathMatch(host.os)]
  /\ Goto(p, "exists")
  /\ UNCHANGED <<procs, host, config, fs, lsp, log, result, invocations, release, issued>>

----------------------------------------------------------------------------
(* The fetch part of initialize *)

ZipPlace(p) == <<loc[p].zip_file>>

\* CheckBinary that fetches whether or not the binary is there
CheckBinaryAlwaysFetches(p) ==
  /\ pc[p] = "exists"
  /\ io' = [io EXCEPT ![p].fsReads = @ + 1, ![p].checks = @ + 1]
  /\ loc' = [loc EXCEPT ![p].found =
               IF Exists(fs, <<loc[p].server_path>>) THEN "yes" ELSE "no"]
  /\ Goto(p, "stale")
  /\ UNCHANGED <<procs, host, config, fs, lsp, log, result, invocations, release, issued>>

\* if !PathBuf::from(&server_path).exists()
CheckBinary(p) ==
  /\ pc[p] = "exists"
  /\ io' = [io EXCEPT ![p].fsReads = @ + 1, ![p].checks = @ + 1]
  /\ LET there == Exists(fs, <<loc[p].server_path>>)
     IN  /\ loc' = [loc EXCEPT ![p].found = IF there THEN "yes" ELSE "no"]
         /\ Goto(p, IF there THEN "uri" ELSE "stale")
  /\ UNCHANGED <<procs, host, config, fs, lsp, log, result, invocations, release, issued>>

\* RemoveStale that leaves an archive it finds where it is
RemoveStaleKeeps(p) ==
  /\ pc[p] = "stale"
  /\ Count(p, "fsReads")
  /\ Goto(p, "get")
  /\ UNCHANGED <<procs, host, config, fs, loc, lsp, log, result, invocations, release, issued>>

\* if zip_file.exists() { fs::remove_file(&zip_file)?; }
RemoveStale(p) ==
  /\ pc[p] = "stale"
  /\ IF Exists(fs, ZipPlace(p))
     THEN /\ io' = [io EXCEPT ![p].fsReads = @ + 1, ![p].fsDeletes = @ + 1]
          /\ \/ /\ fs' = Delete(fs, ZipPlace(p))
                /\ Goto(p, "get")
                /\ UNCHANGED result
             \/ Fail(p, "remove_file failed") /\ UNCHANGED fs
     ELSE /\ Count(p, "fsReads")
          /\ Goto(p, "get")
          /\ UNCHANGED <<fs, result>>
  /\ UNCHANGED <<procs, host, config, loc, lsp, log, invocations, release, issued>>

\* HttpGet that takes a transport error for a non-success status
HttpGetSoft(p) ==
  /\ pc[p] = "get"
  /\ Count(p, "gets")
  /\ \E st \in {"success", "failure", "error"} :
       /\ loc' = [loc EXCEPT ![p].status = st]
       /\ Say(p, "stderr", "", "STATUS_CODE")
       /\ Goto(p, IF st = "success" THEN "body" ELSE "cleanup")
  /\ UNCHANGED <<procs, host, config, fs, lsp, result, invocations, release, issued>>

\* Http::get(&download_url)?, the STATUS_CODE line and the test of the status
HttpGet(p) ==
  /\ pc[p] = "get"
  /\ Count(p, "gets")
  /\ \/ /\ Fail(p, "Http::get failed")
        /\ loc' = [loc EXCEPT ![p].status = "error"]
        /\ UNCHANGED log
     \/ \E st \in {"success", "failure"} :
          /\ loc' = [loc EXCEPT ![p].status = st]
          /\ Say(p, "stderr", "", "STATUS_CODE")
          /\ Goto(p, IF st = "success" THEN "body" ELSE "cleanup")
          /\ UNCHANGED result
  /\ UNCHANGED <<procs, host, config, fs, lsp, invocations, release, issued>>

\* the bodies the release server can answer with: the file it served for this URL
\* before, or any file when the URL is fetched for the first time
Served(url) == IF url \in DOMAIN release THEN {release[url]} ELSE Bodies

\* resp.body_read_all()?
ReadBody(p) ==
  /\ pc[p] = "body"
  /\ \/ Fail(p, "body_read_all failed") /\ UNCHANGED <<loc, release>>
     \/ \E b \in Served(loc[p].download_url) :
          /\ loc' = [loc EXCEPT ![p].body = b]
          /\ release' = Put(release, loc[p].download_url, b)
          /\ Goto(p, "write")
          /\ UNCHANGED result
  /\ UNCHANGED <<procs, host, config, fs, io, lsp, log, invocations, issued>>

\* fs::write(&zip_file, body)?: a failed write leaves no file or a truncated one
WriteZip(p) ==
  /\ pc[p] = "write"
  /\ Count(p, "fsWrites")
  /\ \/ /\ fs' = Put(fs, ZipPlace(p), Stored(loc[p].body))
        /\ Goto(p, "open")
        /\ UNCHANGED result
     \/ /\ Fail(p, "fs::write failed")
        /\ \/ UNCHANGED fs
           \/ fs' = Put(fs, ZipPlace(p), Stored(NotAZip))
  /\ UNCHANGED <<procs, host, config, loc, lsp, log, invocations, release, issued>>

\* AfterEntry of a loop that stops after its first turn
AfterEntryStopsEarly(entries, i) == "cleanup"

\* where the loop goes after entry i
AfterEntry(entries, i) == IF i + 1 < Len(entries) THEN "entry" ELSE "cleanup"

\* ZipArchive::new(File::open(&zip_file)?)?
OpenZip(p) ==
  /\ pc[p] = "open"
  /\ Count(p, "fsReads")
  /\ \/ Fail(p, IF Exists(fs, ZipPlace(p)) THEN "File::open failed"
                  ELSE "File::open failed: NotFound")
        /\ UNCHANGED loc
     \/ /\ Exists(fs, ZipPlace(p))
        /\ LET file == fs[ZipPlace(p)]
           IN  IF file.zip
               THEN /\ loc' = [loc EXCEPT ![p].entries = file.entries, ![p].i = 0]
                    /\ Goto(p, IF file.entries = <<>> THEN "cleanup" ELSE "entry")
                    /\ UNCHANGED result
               ELSE Fail(p, "invalid Zip archive") /\ UNCHANGED loc
  /\ UNCHANGED <<procs, host, config, fs, lsp, log, invocations, release, issued>>

Current(p) == loc[p].entries[loc[p].i + 1]

\* one turn of the loop up to File::create: by_index, enclosed_name, the directories
ExtractEntry(p) ==
  /\ pc[p] = "entry"
  /\ LET e == Current(p)
         out == Place(e.name)
         up == Place(Parent(e.name))
     IN  \/ Fail(p, "by_index failed") /\ UNCHANGED <<loc, fs, io>>
         \/ /\ ~EnclosedName(e)
            /\ loc' = [loc EXCEPT ![p].i = @ + 1]
            /\ Goto(p, AfterEntry(loc[p].entries, loc[p].i))
            /\ UNCHANGED <<fs, io, result>>
         \/ /\ EnclosedName(e) /\ e.dir
            /\ io' = [io EXCEPT ![p].fsWrites = @ + 1, ![p].extracted = @ + 1]
            /\ \/ /\ CanMkdirAll(fs, out)
                  /\ fs' = MkdirAll(fs, out)
                  /\ loc' = [loc EXCEPT ![p].i = @ + 1]
                  /\ Goto(p, AfterEntry(loc[p].entries, loc[p].i))
                  /\ UNCHANGED result
               \/ Fail(p, "create_dir_all failed") /\ UNCHANGED <<loc, fs>>
         \/ /\ EnclosedName(e) /\ ~e.dir
            /\ IF up # <<>> /\ up \notin DOMAIN fs
               THEN /\ io' = [io EXCEPT ![p].fsReads = @ + 1, ![p].fsWrites = @ + 1]
                    /\ \/ /\ CanMkdirAll(fs, up)
                          /\ fs' = MkdirAll(fs, up)
                          /\ Goto(p, "create")
                          /\ UNCHANGED result
                       \/ Fail(p, "create_dir_all failed") /\ UNCHANGED fs
               ELSE /\ Count(p, "fsReads")
                    /\ Goto(p, "create")
                    /\ UNCHANGED <<fs, result>>
            /\ UNCHANGED loc
  /\ UNCHANGED <<procs, host, config, lsp, log, invocations, release, issued>>

\* File::create(&outpath)?: the file exists from here on, empty
CreateOutfile(p) ==
  /\ pc[p] = "create"
  /\ Count(p, "fsWrites")
  /\ LET out == Place(Current(p).name)
     IN  \/ /\ out \in DOMAIN fs => fs[out].kind = "file"
            /\ fs' = Put(fs, out, Data(FALSE))
            /\ Goto(p, "copy")
            /\ UNCHANGED result
         \/ Fail(p, "File::create failed") /\ UNCHANGED fs
  /\ UNCHANGED <<procs, host, config, loc, lsp, log, invocations, release, issued>>

\* io::copy(&mut file, &mut outfile)?: a failed copy leaves the file cut short
CopyEntry(p) ==
  /\ pc[p] = "copy"
  /\ LET out == Place(Current(p).name)
     IN  \/ /\ fs' = Put(fs, out, Data(TRUE))
            /\ loc' = [loc EXCEPT ![p].i = @ + 1]
            /\ io' = [io EXCEPT ![p].fsWrites = @ + 1, ![p].extracted = @ + 1]
            /\ Goto(p, AfterEntry(loc[p].entries, loc[p].i))
            /\ UNCHANGED result
         \/ /\ Fail(p, "io::copy failed")
            /\ Count(p, "fsWrites")
            /\ UNCHANGED <<fs, loc>>
  /\ UNCHANGED <<procs, host, config, lsp, log, invocations, release, issued>>

----------------------------------------------------------------------------
(* Cleanup, launch and return *)

\* if let Err(e) = fs::remove_file(&zip_file): a file that is not there cannot be
\* removed, and one that is there may be locked
RemoveZip(p) ==
  /\ pc[p] = "cleanup"
  /\ Count(p, "fsDeletes")
  /\ \/ /\ Exists(fs, ZipPlace(p))
        /\ fs' = Delete(fs, ZipPlace(p))
        /\ loc' = [loc EXCEPT ![p].removed = "ok"]
        /\ Goto(p, "uri")
     \/ /\ loc' = [loc EXCEPT ![p].removed = "failed"]
        /\ Goto(p, "logerr")
        /\ UNCHANGED fs
  /\ UNCHANGED <<procs, host, config, lsp, log, result, invocations, release, issued>>

\* error!(..): PLUGIN_RPC.window_log_message(MessageType::ERROR, ..)?
LogRemoveError(p) ==
  /\ pc[p] = "logerr"
  /\ \/ /\ Say(p, "log", "ERROR", "Failed to remove download artifact!")
        /\ Goto(p, "uri")
        /\ UNCHANGED result
     \/ Fail(p, "window_log_message failed") /\ UNCHANGED log
  /\ UNCHANGED <<procs, host, config, fs, loc, io, lsp, invocations, release, issued>>

\* let volt_uri = VoltEnvironment::uri()?
ReadUri(p) ==
  /\ pc[p] = "uri"
  /\ Count(p, "uriReads")
  /\ IF host.uri = <<Unset>>
     THEN Fail(p, "VoltEnvironment::uri failed") /\ UNCHANGED loc
     ELSE /\ loc' = [loc EXCEPT ![p].volt_uri = host.uri]
          /\ Goto(p, "join")
          /\ UNCHANGED result
  /\ UNCHANGED <<procs, host, config, fs, lsp, log, invocations, release, issued>>

\* Url::parse(&volt_uri) and server_uri.join(server_path)?
JoinUri(p) ==
  /\ pc[p] = "join"
  /\ LET u == JoinUrl(loc[p].volt_uri, loc[p].server_path)
     IN  IF u.ok
         THEN /\ loc' = [loc EXCEPT ![p].server_uri = u.href]
              /\ Goto(p, "info")
              /\ UNCHANGED result
         ELSE /\ Fail(p, IF ParsesAsUrl(loc[p].volt_uri) THEN "join failed"
                         ELSE "Failed to parse URL!")
              /\ UNCHANGED loc
  /\ UNCHANGED <<procs, host, config, fs, io, lsp, log, invocations, release, issued>>

\* info!(..): PLUGIN_RPC.window_log_message(MessageType::INFO, ..)?
LogInfo(p) ==
  /\ pc[p] = "info"
  /\ \/ /\ Say(p, "log", "INFO", "Starting LSP server with URI")
        /\ Goto(p, "start")
        /\ UNCHANGED result
     \/ Fail(p, "window_log_message failed") /\ UNCHANGED log
  /\ UNCHANGED <<procs, host, config, fs, loc, io, lsp, invocations, release, issued>>

\* StartLsp whose directive goes out even when the call returns Err
StartLspSentThenErr(p) ==
  /\ pc[p] = "start"
  /\ lsp' = [lsp EXCEPT ![p] =
               Append(@, Directive(loc[p].server_uri, loc[p].server_args, loc[p].options))]
  /\ issued' = issued \cup {[route |-> Route(loc[p]), uri |-> loc[p].server_uri]}
  /\ \/ Finish(p, "Ok")
     \/ Fail(p, "start_lsp failed")
  /\ UNCHANGED <<procs, host, config, fs, loc, io, log, invocations, release>>

\* PLUGIN_RPC.start_lsp(server_uri, server_args, document_selector, options)?; Ok(())
StartLsp(p) ==
  /\ pc[p] = "start"
  /\ \/ /\ lsp' = [lsp EXCEPT ![p] =
                     Append(@, Directive(loc[p].server_uri, loc[p].server_args,
                                         loc[p].options))]
        /\ issued' = issued \cup {[route |-> Route(loc[p]), uri |-> loc[p].server_uri]}
        /\ Finish(p, "Ok")
     \/ Fail(p, "start_lsp failed") /\ UNCHANGED <<lsp, issued>>
  /\ UNCHANGED <<procs, host, config, fs, loc, io, log, invocations, release>>

\* the two calls of handle_request on an Err, each with whether the editor
\* received it
Reported(okLog, okShow) ==
  << [chan |-> "log", level |-> "ERROR", msg |-> "error", sent |-> okLog],
     [chan |-> "show", level |-> "ERROR", msg |-> "error", sent |-> okShow] >>

\* Return that sends the error to the log only
ReturnLogOnly(p) ==
  /\ pc[p] = "return"
  /\ IF result[p] = "Ok"
     THEN UNCHANGED log
     ELSE \E okLog \in BOOLEAN :
            log' = [log EXCEPT ![p] = @ \o SubSeq(Reported(okLog, TRUE), 1, 1)]
  /\ loc' = [loc EXCEPT ![p] = NoLocals]
  /\ Goto(p, "idle")
  /\ UNCHANGED <<procs, host, config, fs, io, lsp, result, invocations, release, issued>>

\* handle_request after initialize returned and its locals are dropped: an Err is
\* sent to the log and shown, and the outcome of neither call is looked at
Return(p) ==
  /\ pc[p] = "return"
  /\ IF result[p] = "Ok"
     THEN UNCHANGED log
     ELSE \E okLog \in BOOLEAN, okShow \in BOOLEAN :
            log' = [log EXCEPT ![p] = @ \o Reported(okLog, okShow)]
  /\ loc' = [loc EXCEPT ![p] = NoLocals]
  /\ Goto(p, "idle")
  /\ UNCHANGED <<procs, host, config, fs, io, lsp, result, invocations, release, issued>>

----------------------------------------------------------------------------
(* Specifications *)

\* hosts of the whole flow: a supported and an unsupported answer on each axis
FlowHosts ==
  [arch : {"x86_64", "riscv64", Unset},
   os : {"linux", "windows", "solaris", Unset},
   uri : UriAnswers \ {WorkDirNoSlash}]

ArgsX == JArr(<<IStr("-x")>>)
Version7 == JStr(<<" ", "7">>)

\* configurations of the whole flow: none, overrides, and every explicit server path
\* with and without the other overrides
FlowConfigs ==
  { NoOptions, Volt("Some(terraform-ls)", ArgsX, JAbsent, Version7) }
  \cup { Volt("None", a, JStr(sp), v) :
           a \in {JAbsent, ArgsX}, v \in {JAbsent, Version7},
           sp \in {PathTls, PathAbs, PathTrailing, PathBadHost} }

\* the working directory is empty, or holds the binary an earlier run installed
Init ==
  /\ Start({1})
  /\ host \in FlowHosts
  /\ config \in FlowConfigs
  /\ fs \in {Empty, (<<ServerPathMatch(host.os)>> :> Data(TRUE))}

Next ==
  \/ \E p \in procs : HandleRequest(p)
  \/ \E p \in procs : ReadConfig(p)
  \/ \E p \in procs : CheckServerPath(p)
  \/ \E p \in procs : ReadVersion(p)
  \/ \E p \in procs : ReadArch(p)
  \/ \E p \in procs : ReadOs(p)
  \/ \E p \in procs : ReadOsAgain(p)
  \/ \E p \in procs : CheckBinary(p)
  \/ \E p \in procs : RemoveStale(p)
  \/ \E p \in procs : HttpGet(p)
  \/ \E p \in procs : ReadBody(p)
  \/ \E p \in procs : WriteZip(p)
  \/ \E p \in procs : OpenZip(p)
  \/ \E p \in procs : ExtractEntry(p)
  \/ \E p \in procs : CreateOutfile(p)
  \/ \E p \in procs : CopyEntry(p)
  \/ \E p \in procs : RemoveZip(p)
  \/ \E p \in procs : LogRemoveError(p)
  \/ \E p \in procs : ReadUri(p)
  \/ \E p \in procs : JoinUri(p)
  \/ \E p \in procs : LogInfo(p)
  \/ \E p \in procs : StartLsp(p)
  \/ \E p \in procs : Return(p)

Spec == Init /\ [][Next]_vars

\* the part of initialize before the working directory is looked at, on every
\* configuration and every host
InitResolve ==
  /\ Start({1})
  /\ host \in [arch : ArchAnswers, os : OsAnswers, uri : {WorkDirSlash}]
  /\ config \in AllConfigs
  /\ fs = Empty

NextResolve ==
  \/ \E p \in procs : HandleRequest(p)
  \/ \E p \in procs : ReadConfig(p)
  \/ \E p \in procs : CheckServerPath(p)
  \/ \E p \in procs : ReadVersion(p)
  \/ \E p \in procs : ReadArch(p)
  \/ \E p \in procs : ReadOs(p)
  \/ \E p \in procs : ReadOsAgain(p)
  \/ \E p \in procs : Return(p)

SpecResolve == InitResolve /\ [][NextResolve]_vars

----------------------------------------------------------------------------
(* Properties *)

\* the invocation has left its environment alone
NoNetwork(p) == io[p].gets = 0
NoPlatformRead(p) == io[p].archReads = 0 /\ io[p].osReads = 0
NoFileTouched(p) == io[p].fsReads = 0 /\ io[p].fsWrites = 0 /\ io[p].fsDeletes = 0

\* initialize has returned and handle_request has not yet returned
Returned(p) == pc[p] = "return"

\* the URL each explicit server path of the model stands for
ExplicitUri ==
  (PathTls :> "urn:tls") @@ (PathAbs :> "urn:/bin/tls") @@ (PathTrailing :> "urn:tls")

\* C1 as stated: with a non-empty string serverPath the invocation makes no HTTP GET,
\* reads no OS or architecture, touches no file, and issues exactly one start_lsp
\* directive whose URI is urn:<serverPath> (read as: unless the start_lsp call itself
\* fails)
C1_ExplicitPathAsStated ==
  \A p \in procs :
    (HasServerPath(config) /\ Returned(p) /\ result[p] # "start_lsp failed") =>
      /\ NoNetwork(p) /\ NoPlatformRead(p) /\ NoFileTouched(p)
      /\ Len(lsp[p]) = 1
      /\ lsp[p][1].uri = "urn:" \o Flat(config.serverPath.s)

\* C1 amended: with a non-empty string serverPath the invocation makes no HTTP GET,
\* reads no OS or architecture and touches no file, whatever the rest of the
\* configuration, the host and the working directory; when it returns Ok it has issued
\* exactly one directive, whose URI is the URL that urn:<serverPath> parses to, with the
\* resolved arguments, selector and options; when urn:<serverPath> is no URL it returns
\* "Failed to parse URL", and whenever it returns an error it has issued no directive
C1_ExplicitPath ==
  \A p \in procs :
    HasServerPath(config) =>
      /\ NoNetwork(p) /\ NoPlatformRead(p) /\ NoFileTouched(p) /\ io[p].uriReads = 0
      /\ pc[p] \in {"idle", "config", "serverPath", "return"}
      /\ Returned(p) =>
           /\ result[p] \in {"Ok", "Failed to parse URL", "start_lsp failed"}
           /\ result[p] = "Ok" =>
                /\ config.serverPath.s \in DOMAIN ExplicitUri
                /\ lsp[p] = << Directive(ExplicitUri[config.serverPath.s],
                                         <<"serve">> \o StringsOf(config.serverArgs.items),
                                         config.tfls) >>
           /\ result[p] # "Ok" => lsp[p] = <<>>
           /\ config.serverPath.s = PathBadHost => result[p] = "Failed to parse URL"

\* an explicit path launches on a host with an unsupported OS, a version override and
\* the binary already in the working directory
C1_Witness ==
  \E p \in procs :
    /\ HasServerPath(config) /\ Returned(p) /\ result[p] = "Ok"
    /\ Len(lsp[p]) = 1 /\ lsp[p][1].uri = "urn:/bin/tls"
    /\ host.os = "solaris" /\ host.arch = Unset
    /\ config.version = Version7
    /\ DOMAIN fs # {}

\* the outcomes of the launch step
LaunchOutcomes ==
  {"Ok", "VoltEnvironment::uri failed", "Failed to parse URL!", "join failed",
   "window_log_message failed", "start_lsp failed"}

\* C2: an invocation that finds the binary in the working directory makes no HTTP GET,
\* writes, extracts and deletes nothing, and goes to the launch step, where it fails
\* only as a launch fails and, when it succeeds, issues one directive; the URI it
\* issues is the URI a fresh install issues for the same working directory and host
C2_Idempotent ==
  /\ \A p \in procs :
       loc[p].found = "yes" =>
         /\ NoNetwork(p)
         /\ io[p].fsWrites = 0 /\ io[p].fsDeletes = 0 /\ io[p].extracted = 0
         /\ pc[p] \in {"uri", "join", "info", "start", "return"}
         /\ Returned(p) =>
              /\ result[p] \in LaunchOutcomes
              /\ result[p] = "Ok" =>
                   /\ Len(lsp[p]) = 1
                   /\ [route |-> "present", uri |-> lsp[p][1].uri] \in issued
  /\ \A d1 \in issued, d2 \in issued :
       (d1.route = "present" /\ d2.route = "fresh") => d1.uri = d2.uri

\* a fresh install has launched, and a later invocation found the binary and launched
C2_Witness ==
  \E p \in procs :
    /\ loc[p].found = "yes" /\ Returned(p) /\ result[p] = "Ok"
    /\ invocations = 2
    /\ \E d \in issued : d.route = "fresh" /\ d.uri = lsp[p][1].uri

\* a serverArgs override that is an array with at least one string
HasArgsOverride ==
  /\ config.hasOpts /\ config.hasVolt /\ config.serverArgs.t = "arr"
  /\ StringsOf(config.serverArgs.items) # <<>>

PlatformErrors == {"Unsupported ARCH", "Error ARCH", "Unsupported OS", "Error OS"}

UnsupportedHost == host.arch \notin SupportedArch \/ host.os \notin SupportedOS

\* C4: without an explicit server path, on a host whose architecture or OS is not
\* supported, initialize ends in a platform error, and no HTTP GET, no file operation
\* and no launch directive has occurred at any point of the invocation
C4_UnsupportedPlatform ==
  \A p \in procs :
    (UnsupportedHost /\ ~HasServerPath(config)) =>
      /\ NoNetwork(p) /\ NoFileTouched(p) /\ io[p].extracted = 0
      /\ lsp[p] = <<>>
      /\ pc[p] \in {"idle", "config", "serverPath", "version", "arch", "os", "return"}
      /\ Returned(p) => result[p] \in PlatformErrors
      /\ (Returned(p) /\ host.arch \in SupportedArch) =>
           result[p] = IF host.os = Unset THEN "Error OS" ELSE "Unsupported OS"
      /\ (Returned(p) /\ host.arch \notin SupportedArch) =>
           result[p] = IF host.arch = Unset THEN "Error ARCH" ELSE "Unsupported ARCH"

\* initialize has ended in "Unsupported OS" on a host with a supported architecture
C4_Witness ==
  \E p \in procs :
    /\ Returned(p) /\ result[p] = "Unsupported OS"
    /\ host.arch = "x86_64" /\ host.os = "solaris"
    /\ ~HasServerPath(config)

\* C5 as stated: after a non-success status initialize does not fail: it writes no
\* archive, extracts nothing and goes on to the launch step
C5_NonSuccessProceeds ==
  \A p \in procs :
    loc[p].status = "failure" =>
      /\ io[p].fsWrites = 0 /\ io[p].extracted = 0
      /\ Returned(p) => io[p].uriReads = 1

\* C6: when the HTTP GET itself fails, initialize returns that error at once: one GET
\* has been made, no archive is written or extracted, no launch directive is issued
C6_TransportError ==
  \A p \in procs :
    /\ loc[p].status = "error" =>
         /\ Returned(p) /\ result[p] = "Http::get failed"
         /\ io[p].gets = 1
         /\ io[p].fsWrites = 0 /\ io[p].extracted = 0
         /\ io[p].uriReads = 0
         /\ lsp[p] = <<>>
         /\ ~Exists(fs, ZipPlace(p))
    /\ result[p] = "Http::get failed" =>
         io[p].gets = 1 /\ io[p].fsWrites = 0 /\ lsp[p] = <<>>

\* the GET has failed and initialize has returned the error
C6_Witness ==
  \E p \in procs :
    /\ Returned(p) /\ loc[p].status = "error" /\ loc[p].found = "no"
    /\ result[p] = "Http::get failed"

\* C7 as stated: when the removal of the archive fails, the failure is only logged and
\* the flow goes on to the launch step, whatever the logging call returns
C7_RemovalNeverEscalated ==
  \A p \in procs :
    (loc[p].removed = "failed" /\ Returned(p)) => io[p].uriReads = 1

\* a place inside the working directory
Inside(place) == place # <<>> /\ place[1] \notin {"..", "/"}

\* an entry whose path resolves inside the destination
Legal(e) == Inside(Place(e.name))

\* the extraction loop of this invocation has run to its end
Extracted(p) ==
  /\ loc[p].status = "success"
  /\ pc[p] \in {"cleanup", "logerr", "uri", "join", "info", "start"}

\* C8: nothing is ever written outside the working directory, and an entry that
\* resolves outside it does not stop the extraction: when the loop has run to its end
\* every other entry of the archive, before or after it, is in the working directory
C8_ZipSlip ==
  /\ \A place \in DOMAIN fs : Inside(place)
  /\ \A p \in procs :
       Extracted(p) =>
         \A k \in 1..Len(loc[p].entries) :
           LET e == loc[p].entries[k]
           IN  Legal(e) =>
                 /\ Place(e.name) \in DOMAIN fs
                 /\ fs[Place(e.name)] = IF e.dir THEN Dir ELSE Data(TRUE)

\* an archive with docs/../../evil before the binary has been extracted: the binary
\* is there, and evil is nowhere
C8_Witness ==
  \E p \in procs :
    /\ Extracted(p)
    /\ loc[p].entries = <<EClimb, EBinary>>
    /\ DOMAIN fs = {<<"terraform-ls">>, ZipPlace(p)}
    /\ fs[<<"terraform-ls">>] = Data(TRUE)

\* the positions of the characters of cs that are no whitespace
Solid(cs) == { k \in 1..Len(cs) : ~IsWhitespace(cs[k]) }

Least(S) == CHOOSE k \in S : \A j \in S : k <= j
Greatest(S) == CHOOSE k \in S : \A j \in S : j <= k

\* the version the configuration asks for: the override from its first to its last
\* character that is no whitespace, or the compiled default
ExpectedVersion ==
  IF config.hasOpts /\ config.hasVolt /\ config.version.t = "str"
     /\ Solid(config.version.s) # {}
  THEN Flat(SubSeq(config.version.s, Least(Solid(config.version.s)),
                   Greatest(Solid(config.version.s))))
  ELSE "0.32.7"

\* the version is resolved and used from these points on
VersionResolved(p) == pc[p] \in {"arch", "os", "os2", "exists"}

\* C9: the resolved version is the override trimmed of surrounding whitespace when
\* that leaves something, and 0.32.7 otherwise (absent, not a string, empty or
\* whitespace only); it is never empty, and the configuration part never ends in an
\* error because of the override
C9_Version ==
  \A p \in procs :
    ~HasServerPath(config) =>
      /\ VersionResolved(p) =>
           /\ loc[p].version = ExpectedVersion
           /\ loc[p].version # ""
      /\ Returned(p) => result[p] \in PlatformErrors

\* a whitespace-only override has resolved to the default, and the archive name is
\* built from it
C9_Witness ==
  \E p \in procs :
    /\ config.version = JStr(<<" ", " ">>)
    /\ pc[p] = "os2"
    /\ loc[p].version = "0.32.7"
    /\ loc[p].zip_file = "terraform-ls_0.32.7_linux_amd64.zip"

OsFamily ==
  [os \in SupportedOS |->
     CASE os = "macos" -> "darwin"
       [] os = "linux" -> "linux"
       [] os = "windows" -> "windows"
       [] os = "openbsd" -> "openbsd"
       [] os = "freebsd" -> "freebsd"]

ArchToken ==
  [a \in SupportedArch |->
     CASE a = "x86" -> "386" [] a = "x86_64" -> "amd64" [] a = "aarch64" -> "arm64"]

ReleaseBase == "https://releases.hashicorp.com/terraform-ls"

\* C10: on every supported host the archive name is
\* terraform-ls_<version>_<osfamily>_<archtoken>.zip, the download URL is
\* <base>/<version>/<archive name>, and the binary is terraform-ls.exe on windows and
\* terraform-ls everywhere else; a supported host never ends in a platform error
C10_Names ==
  \A p \in procs :
    LET name == "terraform-ls_" \o ExpectedVersion \o "_" \o OsFamily[host.os]
                  \o "_" \o ArchToken[host.arch] \o ".zip"
    IN  (~UnsupportedHost /\ ~HasServerPath(config)) =>
          /\ pc[p] \in {"os2", "exists"} =>
               /\ loc[p].zip_file = name
               /\ loc[p].download_url = ReleaseBase \o "/" \o ExpectedVersion \o "/" \o name
          /\ pc[p] = "exists" =>
               loc[p].server_path =
                 IF host.os = "windows" THEN "terraform-ls.exe" ELSE "terraform-ls"
          /\ Returned(p) => result[p] \notin PlatformErrors

\* the names for version 7 on windows/aarch64
C10_Witness ==
  \E p \in procs :
    /\ pc[p] = "exists"
    /\ host.os = "windows" /\ host.arch = "aarch64"
    /\ loc[p].zip_file = "terraform-ls_7_windows_arm64.zip"
    /\ loc[p].download_url =
         "https://releases.hashicorp.com/terraform-ls/7/terraform-ls_7_windows_arm64.zip"
    /\ loc[p].server_path = "terraform-ls.exe"

----------------------------------------------------------------------------
\* the archive name that the windows arm of the match gives this invocation
WindowsArchive(p) == ZipMatch("windows", loc[p].version, loc[p].arch).v

\* C11: within one invocation the operating system is read exactly once, and the
\* binary name ends in .exe exactly when the archive name is the windows archive
C11_OsReadOnce ==
  \A p \in procs :
    /\ io[p].osReads <= 1
    /\ pc[p] = "exists" =>
         (loc[p].server_path = "terraform-ls.exe" <=> loc[p].zip_file = WindowsArchive(p))

----------------------------------------------------------------------------
(* Two invocations against one working directory *)

\* two plugin processes that share the host, the configuration and the directory,
\* with the binary not there
InitConc ==
  /\ Start({1, 2})
  /\ host = [arch |-> "x86_64", os |-> "linux", uri |-> WorkDirSlash]
  /\ config = Volt("Some(terraform-ls)", ArgsX, JAbsent, Version7)
  /\ fs = Empty

SpecConc == InitConc /\ [][Next]_vars

\* the binary of invocation p is in the directory without all of its content
BinaryPartial(p) ==
  /\ Exists(fs, <<loc[p].server_path>>)
  /\ ~fs[<<loc[p].server_path>>].full

\* no step of any invocation has failed
NoStepFailed == \A q \in procs : result[q] \in {"none", "Ok"}

\* C12: when two invocations run at once on a directory without the binary, neither
\* fails because the other removed the archive it had written, and, as long as no
\* step of either has failed, neither launches a binary that is only partly written
C12_ConcurrentSafe ==
  \A p \in procs :
    /\ result[p] # "File::open failed: NotFound"
    /\ (NoStepFailed /\ Returned(p) /\ result[p] = "Ok") => ~BinaryPartial(p)

----------------------------------------------------------------------------
\* the place of each step in the text of initialize and handle_request
Rank ==
  [idle |-> 0, config |-> 1, serverPath |-> 2, version |-> 3, arch |-> 4, os |-> 5,
   os2 |-> 6, exists |-> 7, stale |-> 8, get |-> 9, body |-> 10, write |-> 11,
   open |-> 12, entry |-> 13, create |-> 14, copy |-> 15, cleanup |-> 16,
   logerr |-> 17, uri |-> 18, join |-> 19, info |-> 20, start |-> 21, return |-> 22]

\* the steps of the for loop over the entries
InLoop == {"entry", "create", "copy"}

\* invocation p has ended in exactly one of the two outcomes
OneOutcome(p) ==
  \/ result[p] = "Ok" /\ Len(lsp[p]) = 1
  \/ result[p] \notin {"Ok", "none"} /\ lsp[p] = <<>>

\* invocation p moves forward in the text, or to the next entry of the loop, or
\* hands its result back
Forward(p) ==
  pc'[p] # pc[p] =>
    \/ Rank[pc'[p]] > Rank[pc[p]]
    \/ pc[p] \in InLoop /\ pc'[p] = "entry" /\ loc'[p].i = loc[p].i + 1
    \/ pc[p] = "return" /\ pc'[p] = "idle"

\* C13: every invocation ends in exactly one of a launch directive issued and an
\* error handed to the caller; it issues at most one directive and at most one GET;
\* no step is run twice (the loop runs once per entry); and no invocation is stuck
\* before it has returned
C13_OneOutcome ==
  /\ [](\A p \in procs :
         /\ Returned(p) => OneOutcome(p)
         /\ pc[p] \notin {"idle", "return"} => result[p] = "none" /\ lsp[p] = <<>>
         /\ Len(lsp[p]) <= 1
         /\ io[p].gets <= 1 /\ io[p].checks <= 1
         /\ io[p].archReads <= 1 /\ io[p].uriReads <= 1
         /\ pc[p] # "idle" => ENABLED Next)
  /\ [][\A p \in procs : Forward(p)]_vars

\* an invocation that fetched, extracted and launched
C13_Witness ==
  \E p \in procs :
    /\ Returned(p) /\ result[p] = "Ok"
    /\ io[p].gets = 1 /\ io[p].extracted >= 1
    /\ Len(lsp[p]) = 1

----------------------------------------------------------------------------
\* the calls handle_request made on channel chan to report an error
ErrorCalls(p, chan) ==
  {k \in DOMAIN log[p] :
     log[p][k].chan = chan /\ log[p][k].level = "ERROR" /\ log[p][k].msg = "error"}

\* C14: an invocation that ended in an error (of the platform, the transport, the
\* archive, a file write, the URI or any other) issued no launch directive, and
\* handle_request then called the log channel and the show-message channel once
\* each with the error; initialize is started only by a new request, never again
\* for the same one
C14_ErrorsSurfaced ==
  /\ [](\A p \in procs :
         /\ result[p] \notin {"Ok", "none"} => lsp[p] = <<>>
         /\ (pc[p] = "idle" /\ result[p] \notin {"Ok", "none"}) =>
              /\ Cardinality(ErrorCalls(p, "log")) = 1
              /\ Cardinality(ErrorCalls(p, "show")) = 1
         /\ (pc[p] # "idle" \/ result[p] = "Ok") =>
              ErrorCalls(p, "log") \cup ErrorCalls(p, "show") = {})
  /\ [][\A p \in procs :
          /\ pc[p] = "return" => pc'[p] \in {"return", "idle"}
          /\ (pc'[p] = "config" /\ pc[p] # "config") =>
               pc[p] = "idle" /\ invocations' = invocations + 1]_vars

\* an archive that does not open: the error is handed back and reaches both channels
C14_Witness ==
  \E p \in procs :
    /\ pc[p] = "idle"
    /\ result[p] = "invalid Zip archive"
    /\ lsp[p] = <<>>
    /\ \E k \in ErrorCalls(p, "log") : log[p][k].sent
    /\ \E k \in ErrorCalls(p, "show") : log[p][k].sent

----------------------------------------------------------------------------
\* the steps between the response and the end of the loop
Fetching == {"body", "write", "open", "entry", "create", "copy"}

\* the steps from the read of the working-directory URI to the launch
Launching == {"join", "info", "start"}

\* C15: in an invocation without an explicit server path the GET comes after the
\* presence check and only when the binary was absent; the archive is written and
\* extracted only after a success status and the loop has gone through all the
\* entries when the removal is attempted; the working-directory URI is read, the
\* launch URI computed and the directive issued only after the loop has ended and,
\* on the fetch path, after the removal attempt
C15_StepOrder ==
  \A p \in procs :
    pc[p] # "idle" =>
      /\ io[p].gets >= 1 => io[p].checks = 1 /\ loc[p].found = "no"
      /\ loc[p].found = "yes" =>
           io[p].gets = 0 /\ io[p].fsWrites = 0 /\ io[p].fsDeletes = 0
      /\ (io[p].fsWrites >= 1 \/ pc[p] \in Fetching) =>
           io[p].gets = 1 /\ loc[p].status = "success"
      /\ pc[p] \in Fetching \cup {"cleanup", "logerr"} =>
           /\ io[p].uriReads = 0 /\ loc[p].volt_uri = <<>>
           /\ loc[p].server_uri = "" /\ lsp[p] = <<>>
      /\ pc[p] \in Fetching => loc[p].removed = "?"
      /\ (loc[p].removed # "?" /\ loc[p].status = "success") =>
           loc[p].i = Len(loc[p].entries)
      /\ (loc[p].found = "no" /\ io[p].uriReads >= 1) => loc[p].removed # "?"
      /\ (loc[p].found # "?" /\ (pc[p] \in Launching \/ lsp[p] # <<>>)) =>
           io[p].uriReads = 1
      /\ (loc[p].found # "?" /\ lsp[p] # <<>>) => loc[p].server_uri # ""

\* a launch after both entries of an archive were extracted and the archive removed
C15_Witness ==
  \E p \in procs :
    /\ Returned(p) /\ result[p] = "Ok"
    /\ loc[p].found = "no" /\ loc[p].status = "success"
    /\ Len(loc[p].entries) = MaxEntries /\ loc[p].i = MaxEntries
    /\ loc[p].removed = "ok"
    /\ io[p].uriReads = 1

----------------------------------------------------------------------------
\* C16: when the GET is about to be issued no archive is at the archive path, a
\* stale one having been deleted first; an invocation whose stale-archive delete
\* failed issues no GET; and the entries being extracted are those of the body of
\* this invocation's response
C16_StaleArchive ==
  \A p \in procs :
    /\ pc[p] = "get" => ~Exists(fs, ZipPlace(p))
    /\ result[p] = "remove_file failed" => io[p].gets = 0 /\ io[p].fsDeletes = 1
    /\ pc[p] \in InLoop =>
         /\ loc[p].body.zip
         /\ loc[p].entries = loc[p].body.entries
         /\ Exists(fs, ZipPlace(p)) /\ fs[ZipPlace(p)] = Stored(loc[p].body)

\* an invocation that found a stale archive without the binary, deleted it, and is
\* extracting the archive it wrote itself
C16_Witness ==
  \E p \in procs :
    /\ pc[p] \in InLoop
    /\ io[p].fsDeletes = 1 /\ io[p].gets = 1
    /\ loc[p].found = "no"

----------------------------------------------------------------------------
\* C17: the presence of the binary is observed before the download decision, and
\* on the fetch path it has been observed a second time when the launch directive
\* is issued
C17_ObservedAgain ==
  \A p \in procs :
    /\ io[p].gets >= 1 => io[p].checks >= 1
    /\ (Returned(p) /\ loc[p].found = "no" /\ lsp[p] # <<>>) => io[p].checks >= 2

----------------------------------------------------------------------------
\* invocation p has issued its directive after resolving the platform names
Launched(p) == Returned(p) /\ result[p] = "Ok" /\ loc[p].found # "?"

\* C18: an invocation that found the binary present and skipped the fetch launches
\* only a binary that was written in full, and once an invocation whose archive
\* removal did not fail has issued its directive, no archive is left at the archive
\* path
C18_OnlyWholeBinaries ==
  \A p \in procs :
    /\ (Launched(p) /\ loc[p].found = "yes") => ~BinaryPartial(p)
    /\ (Launched(p) /\ loc[p].removed # "failed") => ~Exists(fs, ZipPlace(p))

\* the diagnostic of lines 167-171 is in the log of invocation p
SaidRemoveFailed(p) ==
  \E k \in DOMAIN log[p] :
    /\ log[p][k].level = "ERROR"
    /\ log[p][k].msg = "Failed to remove download artifact!"

\* C19: the diagnostic "Failed to remove download artifact" is in the log only of
\* an invocation that wrote an archive, so never of one whose GET returned a
\* non-success status
C19_DiagnosticOnlyAfterWrite ==
  \A p \in procs :
    (pc[p] # "idle" /\ SaidRemoveFailed(p)) =>
      loc[p].status = "success" /\ io[p].fsWrites >= 1

====
